---- MODULE Spec2Model ----
(***************************************************************************)
(* A model of scsm/core.py: the persisted app index (Index), the resolved  *)
(* application (App), the server session layer (Server) and the adapter    *)
(* of the external update tool (SteamCMD).                                 *)
(*                                                                         *)
(* Python values are tagged so that the integer 730 and the string "730"   *)
(* stay different values, as they are as YAML keys and under ==/in:        *)
(*   PyInt(n) is the int n, PyStr(s) the str s, None is None.                  *)
(* Command-line tokens, output lines and directives are plain strings.     *)
(***************************************************************************)
EXTENDS Integers, Sequences, FiniteSets, TLC

VARIABLES
    pc,         \* position of the modelled command: "idle" before a call, then the call made
    index,      \* content of app_index.yaml: ordered mapping app_id -> {app_name -> [server names]}
    token,      \* the arguments of the call: the identifier handed to Index.search / App(),
                \* the parameters handed to SteamCMD.app_update
    result,     \* the value the last call returned
    outcome,    \* "returned", or the name of the exception the call raised
    data_apps,  \* Config.data_dir/apps, the bundled definitions: [exists, files]
    config_apps, \* Config.config_dir/apps, the user's definitions: [exists, files]
    system,     \* platform.system() of the host
    cmd,        \* the argument list the last command built
    proc,       \* the last external process: [argv, captured, stdout, returncode]
    self,       \* the App / Server object the command constructed
    install,    \* {install root}/{app_id}: [id_dir, dirs], dirs the variant directories in it
    adapter     \* what steamcmd.app_update returned to App.update: [called, value]

vars == <<pc, index, token, result, outcome, data_apps, config_apps, system, cmd, proc,
          self, install, adapter>>

\* what the index and update-tool commands leave alone
objects == <<self, install, adapter>>

\* what the index commands leave alone
steam == <<system, cmd, proc>>

roots == <<data_apps, config_apps>>

-----------------------------------------------------------------------------
(* Python values *)

None == <<"none">>
PyInt(n) == <<"int", n>>
PyStr(s) == <<"str", s>>

DigitChars == <<"0", "1", "2", "3", "4", "5", "6", "7", "8", "9">>

IsDigit(c) == \E d \in 1..10 : DigitChars[d] = c

DigitValue(c) == (CHOOSE d \in 1..10 : DigitChars[d] = c) - 1

\* the strings int() accepts in the model's universe: non-empty runs of decimal digits
IsDecimal(s) == Len(s) > 0 /\ \A i \in 1..Len(s) : IsDigit(SubSeq(s, i, i))

RECURSIVE DecimalValue(_)
DecimalValue(s) ==
    IF Len(s) = 0 THEN 0
    ELSE 10 * DecimalValue(SubSeq(s, 1, Len(s) - 1)) + DigitValue(SubSeq(s, Len(s), Len(s)))

\* try: app = int(app) / except ValueError: pass
int_or_pass(app) == IF IsDecimal(app) THEN PyInt(DecimalValue(app)) ELSE PyStr(app)

\* str(n) for the small non-negative ints of the model
RECURSIVE str(_)
str(n) == IF n < 10 THEN DigitChars[n + 1] ELSE str(n \div 10) \o DigitChars[(n % 10) + 1]

\* word in line (substring test on str)
Contains(line, word) ==
    \E i \in 1..(Len(line) - Len(word) + 1) : SubSeq(line, i, i + Len(word) - 1) = word

\* s.endswith(c) for a one-character c
EndsWith(s, c) == Len(s) > 0 /\ SubSeq(s, Len(s), Len(s)) = c

Range(s) == {s[i] : i \in 1..Len(s)}

-----------------------------------------------------------------------------
(* The index: an insertion-ordered dict, a sequence of entries             *)
(*   [app_id |-> PyInt(n), apps |-> <<[app_name |-> PyStr(v), servers |-> <<PyStr(s), ...>>], ...>>] *)

Keys(data) == {data[i].app_id : i \in 1..Len(data)}

AppNames(entry) == {entry.apps[j].app_name : j \in 1..Len(entry.apps)}

\* data[app_id][app_name] for an app_name that is a key of the entry
ServersOf(entry, app_name) ==
    entry.apps[CHOOSE j \in 1..Len(entry.apps) : entry.apps[j].app_name = app_name].servers

\* the first app_name, in key order, whose server list holds app; 0 when none does
FirstAppNameWith(entry, app) ==
    LET hits == {j \in 1..Len(entry.apps) : app \in Range(entry.apps[j].servers)}
    IN  IF hits = {} THEN 0 ELSE CHOOSE j \in hits : \A k \in hits : j <= k

\* the loop `for app_id in data.keys()` of Index.search, from position i on
RECURSIVE SearchFrom(_, _, _)
SearchFrom(data, app, i) ==
    IF i > Len(data) THEN <<None, None, None>>
    ELSE IF app \in AppNames(data[i])
         THEN IF app \in Range(ServersOf(data[i], app))
              THEN <<data[i].app_id, app, app>>
              ELSE <<data[i].app_id, app, None>>
    ELSE IF FirstAppNameWith(data[i], app) # 0
         THEN <<data[i].app_id, data[i].apps[FirstAppNameWith(data[i], app)].app_name, app>>
    ELSE SearchFrom(data, app, i + 1)

\* a slip: the scan keeps going after a match, so the last match wins
RECURSIVE SearchLastFrom(_, _, _)
SearchLastFrom(data, app, i) ==
    IF i < 1 THEN <<None, None, None>>
    ELSE IF app \in AppNames(data[i])
         THEN IF app \in Range(ServersOf(data[i], app))
              THEN <<data[i].app_id, app, app>>
              ELSE <<data[i].app_id, app, None>>
    ELSE IF FirstAppNameWith(data[i], app) # 0
         THEN <<data[i].app_id, data[i].apps[FirstAppNameWith(data[i], app)].app_name, app>>
    ELSE SearchLastFrom(data, app, i - 1)

Index_search_last_match(data, app) ==
    IF int_or_pass(app) \in Keys(data)
    THEN <<int_or_pass(app), None, None>>
    ELSE SearchLastFrom(data, int_or_pass(app), Len(data))

\* Index.search(app) on the index content data
Index_search(data, app) ==
    IF int_or_pass(app) \in Keys(data)
    THEN <<int_or_pass(app), None, None>>
    ELSE SearchFrom(data, int_or_pass(app), 1)

\* a slip: `>= 1` for `> 1`, so a single variant is listed by name
RECURSIVE ListAllNamesFrom(_, _)
ListAllNamesFrom(data, i) ==
    IF i > Len(data) THEN <<>>
    ELSE [j \in 1..Len(data[i].apps) |-> data[i].apps[j].app_name]
         \o ListAllNamesFrom(data, i + 1)

Index_list_all_names(data) == ListAllNamesFrom(data, 1)

\* the generator body of Index.list_all, from position i on
RECURSIVE ListAllFrom(_, _)
ListAllFrom(data, i) ==
    IF i > Len(data) THEN <<>>
    ELSE (IF Len(data[i].apps) > 1
          THEN [j \in 1..Len(data[i].apps) |-> data[i].apps[j].app_name]
          ELSE <<data[i].app_id>>)
         \o ListAllFrom(data, i + 1)

\* Index.list_all() on the index content data: the values yielded, in order
Index_list_all(data) == ListAllFrom(data, 1)

-----------------------------------------------------------------------------
(* Definition files and Index.update                                       *)
(* A definition (the loaded YAML of <app_id>.yaml) is                      *)
(*   [app_id |-> PyInt(n),                                                 *)
(*    apps |-> <<[app_name |-> PyStr(v), fname |-> "..",                    *)
(*                servers |-> <<[server_name |-> PyStr(s), start |-> <<..>>, stop |-> <<..>>], ...>>, *)
(*                beta, password, app_config |-> PyStr(..) or Missing,     *)
(*                platforms |-> {[platform, arch, exec, directory], ...}], ...>>] *)
(* the mappings under apps and servers being in key order                  *)
(* and a directory is [exists |-> BOOLEAN, files |-> {[name |-> "1.yaml", data |-> definition], ...}] *)

NoDirectory == [exists |-> FALSE, files |-> {}]

\* a key the YAML mapping does not have
Missing == <<"missing">>

\* a platforms entry: the executable descriptor of platform, directly under it
\* (arch = "") or one level down under the architecture arch
Descriptor(platform, arch, exec, directory) ==
    [platform |-> platform, arch |-> arch, exec |-> exec, directory |-> directory]

\* a servers entry
ServerEntry(name, start, stop) == [server_name |-> PyStr(name), start |-> start, stop |-> stop]

\* an apps entry
VariantEntry(name, servers, beta, password, app_config, platforms) ==
    [app_name |-> PyStr(name), fname |-> name, servers |-> servers, beta |-> beta,
     password |-> password, app_config |-> app_config, platforms |-> platforms]

\* Path(f).suffix == '.yaml'
HasYamlSuffix(name) == Len(name) > 5 /\ SubSeq(name, Len(name) - 4, Len(name)) = ".yaml"

\* list(data['apps'][app]['servers'].keys())
ServerNames(variant) == [k \in 1..Len(variant.servers) |-> variant.servers[k].server_name]

\* app_index[key] = value on an insertion-ordered dict: an existing key keeps its place
DictSet(app_index, key, value) ==
    IF key \in Keys(app_index)
    THEN [i \in 1..Len(app_index) |->
            IF app_index[i].app_id = key THEN [app_id |-> key, apps |-> value] ELSE app_index[i]]
    ELSE Append(app_index, [app_id |-> key, apps |-> value])

\* `for app in data['apps'].keys(): app_index[data['app_id']] = {app: [...]}`, from app j on
RECURSIVE RecordApps(_, _, _)
RecordApps(app_index, data, j) ==
    IF j > Len(data.apps) THEN app_index
    ELSE RecordApps(
            DictSet(app_index, data.app_id,
                    <<[app_name |-> data.apps[j].app_name, servers |-> ServerNames(data.apps[j])]>>),
            data, j + 1)

\* `for f in d.iterdir()` over the files in the order listing, from file i on
RECURSIVE ScanFiles(_, _, _)
ScanFiles(app_index, listing, i) ==
    IF i > Len(listing) THEN app_index
    ELSE ScanFiles(
            IF HasYamlSuffix(listing[i].name)
            THEN RecordApps(app_index, listing[i].data, 1)
            ELSE app_index,
            listing, i + 1)

\* the app_index Index.update() dumps: the directories config_dirs() yields are the
\* data root's, then the user root's (a missing one has no files), the files of each
\* being iterated in the order data_listing / config_listing
Index_update(data_listing, config_listing) ==
    ScanFiles(ScanFiles(<<>>, data_listing, 1), config_listing, 1)

-----------------------------------------------------------------------------
(* SteamCMD: the adapter of the external update tool *)

\* `if x:` for an optional str argument
Truthy(x) == x # None /\ x # PyStr("")

\* list.insert(i, x): a negative i counts from the end, and i is clamped to the list
ListInsert(list, i, x) ==
    LET n == Len(list)
        at == IF i < 0 THEN (IF n + i < 0 THEN 0 ELSE n + i) ELSE (IF i > n THEN n ELSE i)
    IN  SubSeq(list, 1, at) \o <<x>> \o SubSeq(list, at + 1, n)

\* text.split(sep) for a one-character sep: the pieces between the separators, at least one
RECURSIVE Split(_, _)
Split(text, sep) ==
    LET breaks == {i \in 1..Len(text) : SubSeq(text, i, i) = sep}
    IN  IF breaks = {} THEN <<text>>
        ELSE LET first == CHOOSE i \in breaks : \A k \in breaks : i <= k
             IN  <<SubSeq(text, 1, first - 1)>> \o Split(SubSeq(text, first + 1, Len(text)), sep)

\* reversed(list)
Reversed(list) == [i \in 1..Len(list) |-> list[Len(list) + 1 - i]]

success == <<"Success", "Update complete">>
error == <<"ERROR", "Failed", "Fatal Error">>

\* any(word in line for word in success + error)
HasMarker(line) == \E w \in Range(success \o error) : Contains(line, w)

\* the loop of SteamCMD.filter over lines, from position i on: the first line with a marker
RECURSIVE FirstMarked(_, _)
FirstMarked(lines, i) ==
    IF i > Len(lines) THEN None
    ELSE IF HasMarker(lines[i]) THEN PyStr(lines[i])
    ELSE FirstMarked(lines, i + 1)

\* a slip: the output is scanned from its first line on
SteamCMD_filter_forward(stdout, returncode) ==
    <<PyInt(returncode), FirstMarked(Split(stdout, "\n"), 1)>>

\* SteamCMD.filter(cmd), the process having written stdout and ended with returncode
SteamCMD_filter(stdout, returncode) ==
    <<PyInt(returncode), FirstMarked(Reversed(Split(stdout, "\n")), 1)>>

\* self.exe of a SteamCMD found on the PATH
Exe == "steamcmd"

\* the argument vector SteamCMD.run executes; app_update and update leave run's own
\* username, password and steamguard at their defaults
RunArgv(args) == <<Exe, "anonymous", "", "">> \o args

\* SteamCMD.run(args, verbose=verbose), the process having written stdout and ended
\* with returncode
SteamCMD_run(args, verbose, stdout, returncode) ==
    IF verbose THEN <<PyInt(returncode), None>> ELSE SteamCMD_filter(stdout, returncode)

\* the tool's platform token for a platform.system() name
PlatformType(platform) ==
    IF platform = "Darwin" THEN "macos"
    ELSE IF platform = "Linux" THEN "linux"
    ELSE IF platform = "Windows" THEN "windows"
    ELSE platform

\* the cmd list SteamCMD.app_update builds on a host whose platform.system() is host
AppUpdateCmd(host, app_id, app_dir, beta, beta_password, config, platform, validate, username, password, steam_guard) ==
    LET c0 == <<"+login", username, password, steam_guard, "+force_install_dir",
                app_dir, "+app_update", str(app_id[2]), "+quit">>
        c1 == IF Truthy(config)
              THEN ListInsert(c0, -3, "+app_set_config " \o str(app_id[2]) \o " " \o config[2])
              ELSE c0
        c2 == IF Truthy(beta) THEN ListInsert(c1, -1, "-beta " \o beta[2]) ELSE c1
        c3 == IF Truthy(beta_password)
              THEN ListInsert(c2, -1, "-betapassword " \o beta_password[2])
              ELSE c2
        c4 == IF validate THEN ListInsert(c3, -1, "validate") ELSE c3
    IN  IF Truthy(platform) /\ platform # PyStr(host)
        THEN ListInsert(c4, 1, "+@sSteamCmdForcePlatformType " \o PlatformType(platform[2]))
        ELSE c4

\* the app the modelled commands are about, and where app_update is told to install it
APP_ID == PyInt(730)
APP_DIR == "/srv/730/css"

NoProcess == [argv |-> <<>>, captured |-> FALSE, stdout |-> "", returncode |-> 0]

\* subprocess.run(argv): stdout is captured (stdout=PIPE) unless run is verbose
Process(argv, verbose, stdout, returncode) ==
    [argv |-> argv, captured |-> ~verbose, stdout |-> stdout, returncode |-> returncode]

-----------------------------------------------------------------------------
(* App and Server                                                          *)
(* An object is a record of its attributes; attrs names those of the       *)
(* attributes __init__ sets only on some paths that it has set. A call     *)
(* yields [outcome |-> "returned" or the exception raised, ...].           *)

NoApp ==
    [kind |-> "none", app_id |-> None, app_name |-> None, server_name |-> None,
     config_is_default |-> TRUE, server_names |-> <<>>, start_options |-> <<>>,
     stop_options |-> <<>>, app_dir |-> "", beta |-> None, beta_password |-> None,
     app_config |-> None, platform |-> "", exe |-> "", exec_dir |-> "", session |-> "",
     attrs |-> {}]

\* pf.architecture()[0]
Arch == "64bit"

\* the position of key in an ordered mapping whose entries carry it in field, 0 if absent
VariantAt(data, app_name) ==
    IF \E j \in 1..Len(data.apps) : data.apps[j].app_name = app_name
    THEN CHOOSE j \in 1..Len(data.apps) : data.apps[j].app_name = app_name
    ELSE 0

ServerAt(variant, server_name) ==
    IF \E k \in 1..Len(variant.servers) : variant.servers[k].server_name = server_name
    THEN CHOOSE k \in 1..Len(variant.servers) : variant.servers[k].server_name = server_name
    ELSE 0

\* the files of directory d named name (at most one)
FilesNamed(d, name) == {f \in d.files : f.name = name}

\* self.beta, self.beta_password, self.app_config after the try block of __init__: the
\* first missing key ends the block
BetaOptions(variant) ==
    IF variant.beta = Missing THEN <<None, None, None>>
    ELSE IF variant.password = Missing THEN <<variant.beta, None, None>>
    ELSE IF variant.app_config = Missing THEN <<variant.beta, variant.password, None>>
    ELSE <<variant.beta, variant.password, variant.app_config>>

\* the executable descriptors __init__ can select for platform: the direct one if the
\* platform entry has an exec key, else the one under the running architecture
Selected(variant, platform) ==
    LET direct == {d \in variant.platforms : d.platform = platform /\ d.arch = ""}
    IN  IF direct # {} THEN direct
        ELSE {d \in variant.platforms : d.platform = platform /\ d.arch = Arch}

\* the one member of a singleton set (the value is computed once, then used)
The(S) == CHOOSE x \in S : TRUE

\* App.__init__ from `self.app_names = ...` on the variant found: the attributes it sets
App_attributes(variant, found, is_default, host, app_dir, platform) ==
    LET app_id == found[1]
        server_name == found[3]
        k == ServerAt(variant, server_name)
        dir == app_dir \o "/" \o str(app_id[2]) \o "/" \o variant.app_name[2]
        options == BetaOptions(variant)
        pform == IF platform = None THEN host ELSE platform[2]
        known == \E d \in variant.platforms : d.platform = pform
        chosen == Selected(variant, pform)
    IN  IF server_name # None /\ k = 0 THEN [outcome |-> "KeyError", app |-> NoApp]
        ELSE IF known /\ chosen = {} THEN [outcome |-> "KeyError", app |-> NoApp]
        ELSE
        [outcome |-> "returned",
         app |->
            [kind |-> "App",
             app_id |-> app_id,
             app_name |-> variant.app_name,
             server_name |-> server_name,
             config_is_default |-> is_default,
             server_names |-> ServerNames(variant),
             start_options |-> IF server_name # None THEN variant.servers[k].start ELSE <<>>,
             stop_options |-> IF server_name # None THEN variant.servers[k].stop ELSE <<>>,
             app_dir |-> dir,
             beta |-> options[1],
             beta_password |-> options[2],
             app_config |-> options[3],
             platform |-> pform,
             exe |-> IF known THEN The(chosen).exec ELSE "",
             exec_dir |->
                IF ~known THEN ""
                ELSE IF The(chosen).directory = Missing THEN dir
                ELSE dir \o "/" \o The(chosen).directory[2],
             session |-> "",
             attrs |-> (IF server_name # None THEN {"start_options", "stop_options"} ELSE {})
                       \cup (IF known THEN {"exe", "exec_dir"} ELSE {})]]

\* App.__init__ on the loaded definition: the variant is the one the search found, or
\* the first declared
App_variant(definition, found, is_default, host, app_dir, platform) ==
    LET app_name == IF found[2] # None THEN found[2] ELSE definition.apps[1].app_name
        at == VariantAt(definition, app_name)
    IN  IF at = 0 THEN [outcome |-> "KeyError", app |-> NoApp]
        ELSE The({App_attributes(variant, found, is_default, host, app_dir, platform) :
                    variant \in {definition.apps[at]}})

\* App.__init__ on the search result found: the user's definition file if there is one,
\* else the default one, is opened and loaded
App_load(data_d, config_d, found, host, app_dir, platform) ==
    LET f == (IF found[1] = None THEN "None" ELSE str(found[1][2])) \o ".yaml"
        user == config_d.exists /\ FilesNamed(config_d, f) # {}
        files == IF user THEN FilesNamed(config_d, f)
                 ELSE IF data_d.exists THEN FilesNamed(data_d, f) ELSE {}
    IN  IF files = {} THEN [outcome |-> "FileNotFoundError", app |-> NoApp]
        ELSE The({App_variant(file.data, found, ~user, host, app_dir, platform) : file \in files})

\* App.__init__(app, app_dir, platform=platform) on a host whose platform.system() is host
App_init(data_d, config_d, data, host, tkn, app_dir, platform) ==
    The({App_load(data_d, config_d, found, host, app_dir, platform) :
            found \in {Index_search(data, tkn)}})

\* Server.__init__ after super().__init__ returned base
Server_session(base) ==
    IF base.outcome # "returned" THEN base
    ELSE LET server_name == IF base.app.server_name = None
                            THEN base.app.server_names[1]
                            ELSE base.app.server_name
         IN  [outcome |-> "returned",
              app |-> [base.app EXCEPT
                        !.kind = "Server",
                        !.server_name = server_name,
                        !.session = base.app.app_name[2] \o "-" \o server_name[2],
                        !.attrs = @ \cup {"session"}]]

\* Server.__init__(app, app_dir, platform=platform)
Server_init(data_d, config_d, data, host, tkn, app_dir, platform) ==
    The({Server_session(base) :
            base \in {App_init(data_d, config_d, data, host, tkn, app_dir, platform)}})

\* the install root's directory of one app_id
\*   [id_dir |-> whether {root}/{app_id} exists,
\*    dirs |-> {[name |-> variant, entries |-> the names in {root}/{app_id}/{variant}], ...}]
NoInstall == [id_dir |-> FALSE, dirs |-> {}]

\* the directories {root}/{app_id}/{name} (at most one)
DirsNamed(inst, name) == {d \in inst.dirs : d.name = name}

\* self.app_dir.exists()
AppDirExists(obj, inst) == DirsNamed(inst, obj.app_name[2]) # {}

\* the names self.app_dir.iterdir() goes through
AppDirEntries(obj, inst) == UNION {d.entries : d \in DirsNamed(inst, obj.app_name[2])}

\* a pathlib.Path, which no str equals
PyPath(parent, name) == <<"path", parent \o "/" \o name>>

\* App.installed: iterdir() yields Path objects, each is compared with the str 'steamapps'
App_installed(obj, inst) ==
    /\ AppDirExists(obj, inst)
    /\ \E name \in AppDirEntries(obj, inst) : PyPath(obj.app_dir, name) # PyStr("steamapps")

\* a slip: os.rmdir for shutil.rmtree, which refuses a directory that is not empty
App_remove_rmdir(obj, inst) ==
    IF ~AppDirExists(obj, inst) THEN [outcome |-> "FileNotFoundError", install |-> inst]
    ELSE IF AppDirEntries(obj, inst) # {} THEN [outcome |-> "OSError", install |-> inst]
    ELSE LET others == {d \in inst.dirs : d.name # obj.app_name[2]}
         IN  [outcome |-> "returned", install |-> [id_dir |-> others # {}, dirs |-> others]]

\* App.remove(): shutil.rmtree(self.app_dir), then the app_id directory if it is empty
App_remove(obj, inst) ==
    IF ~AppDirExists(obj, inst) THEN [outcome |-> "FileNotFoundError", install |-> inst]
    ELSE LET others == {d \in inst.dirs : d.name # obj.app_name[2]}
         IN  [outcome |-> "returned", install |-> [id_dir |-> others # {}, dirs |-> others]]

\* App.copy_config(): shutil.copyfile of the default definition into config_dir/apps
App_copy_config(obj, data_d, config_d) ==
    LET f == str(obj.app_id[2]) \o ".yaml"
        source == IF data_d.exists THEN FilesNamed(data_d, f) ELSE {}
    IN  IF source = {} \/ ~config_d.exists
        THEN [outcome |-> "FileNotFoundError", self |-> obj, config_apps |-> config_d]
        ELSE [outcome |-> "returned",
              self |-> [obj EXCEPT !.config_is_default = FALSE],
              config_apps |-> [config_d EXCEPT
                                !.files = {x \in config_d.files : x.name # f} \cup source]]

\* what the external tool does to the install directory while it runs
\*   [creates |-> whether it makes the directory (and its parents), entries |-> what it puts there]
AfterTool(obj, inst, effect) ==
    IF ~effect.creates THEN inst
    ELSE [id_dir |-> TRUE,
          dirs |-> {d \in inst.dirs : d.name # obj.app_name[2]}
                   \cup {[name |-> obj.app_name[2],
                          entries |-> AppDirEntries(obj, inst) \cup effect.entries]}]

NotCalled == [called |-> FALSE, value |-> <<None, None>>, new_install |-> FALSE, left |-> NoInstall]

\* App.update after steamcmd.app_update returned pair, the tool having left the install
\* root as left: the rollback, and the return
App_update_returns(obj, args, pair, new_install, left, process, config_d) ==
    LET ran == [outcome |-> "returned", result |-> pair, self |-> obj,
                config_apps |-> config_d, install |-> left,
                adapter |-> [called |-> TRUE, value |-> pair, new_install |-> new_install,
                             left |-> left],
                cmd |-> args, proc |-> process]
    IN  IF pair[2] = None
        THEN [ran EXCEPT !.outcome = "TypeError", !.result = None]
        ELSE IF Contains(pair[2][2], "(No subscription)") /\ new_install
        THEN The({IF removed.outcome # "returned"
                  THEN [ran EXCEPT !.outcome = removed.outcome, !.result = None]
                  ELSE [ran EXCEPT !.install = removed.install] :
                    removed \in {App_remove(obj, left)}})
        ELSE ran

\* App.update after copy_config: steamcmd.app_update is called with the object's parameters
App_update_runs(obj, inst, config_d, host, validate, verbose, stdout, returncode, effect) ==
    The({App_update_returns(obj, args, pair, ~AppDirExists(obj, inst), AfterTool(obj, inst, effect),
                            Process(RunArgv(args), verbose, stdout, returncode), config_d) :
            <<args, pair>> \in
                {<<c, SteamCMD_run(c, verbose, stdout, returncode)>> :
                    c \in {AppUpdateCmd(host, obj.app_id, obj.app_dir, obj.beta, obj.beta_password,
                                        obj.app_config, PyStr(obj.platform), validate,
                                        "anonymous", "", "")}}})

\* App.update(validate=validate, verbose=verbose) with the default login, the tool
\* writing stdout, ending with returncode and having the effect effect on the directory
App_update(obj, inst, data_d, config_d, host, validate, verbose, stdout, returncode, effect) ==
    IF ~obj.config_is_default
    THEN App_update_runs(obj, inst, config_d, host, validate, verbose, stdout, returncode, effect)
    ELSE The({IF copied.outcome # "returned"
              THEN [outcome |-> copied.outcome, result |-> None, self |-> obj,
                    config_apps |-> config_d, install |-> inst, adapter |-> NotCalled,
                    cmd |-> <<>>, proc |-> NoProcess]
              ELSE App_update_runs(copied.self, inst, copied.config_apps, host, validate,
                                   verbose, stdout, returncode, effect) :
                copied \in {App_copy_config(obj, data_d, config_d)}})

\* ''.join(options)
RECURSIVE Concat(_)
Concat(options) == IF options = <<>> THEN "" ELSE options[1] \o Concat(Tail(options))

\* os.chdir(self.exec_dir) succeeds: the install directory, or its subdirectory, is there
ExecDirExists(obj, inst) ==
    /\ AppDirExists(obj, inst)
    /\ obj.exec_dir # obj.app_dir =>
           \E name \in AppDirEntries(obj, inst) : obj.exec_dir = obj.app_dir \o "/" \o name

\* Server.start(debug): the argument vector it runs
Server_start(obj, inst, debug) ==
    LET cmd0 == IF debug THEN <<>> ELSE <<"screen", "-dmS", obj.session>>
        cmd1 == cmd0 \o Split(obj.exe, " ")
        cmd2 == IF obj.start_options # <<>>
                THEN IF EndsWith(obj.start_options[1], "?")
                     THEN Append(cmd1, Concat(obj.start_options))
                     ELSE cmd1 \o obj.start_options
                ELSE cmd1
    IN  IF "exe" \notin obj.attrs THEN [outcome |-> "AttributeError", cmd |-> <<>>]
        ELSE IF "start_options" \notin obj.attrs THEN [outcome |-> "AttributeError", cmd |-> <<>>]
        ELSE IF ~ExecDirExists(obj, inst) THEN [outcome |-> "FileNotFoundError", cmd |-> <<>>]
        ELSE [outcome |-> "returned", cmd |-> cmd2]

\* the text stop() sends when there are no stop directives: $'\003' (ETX written <ETX>)
Interrupt == "$'<ETX>'"

\* Server.send(command): the argument vector it runs
Server_send(obj, command) == <<"screen", "-S", obj.session, "-X", "stuff", command \o "\n">>

\* Server.stop(): the argument vectors it runs, in order
Server_stop(obj) ==
    IF "stop_options" \notin obj.attrs THEN [outcome |-> "AttributeError", cmd |-> <<>>]
    ELSE IF obj.stop_options # <<>>
    THEN [outcome |-> "returned",
          cmd |-> [i \in 1..Len(obj.stop_options) |-> Server_send(obj, obj.stop_options[i])]]
    ELSE [outcome |-> "returned", cmd |-> <<Server_send(obj, Interrupt)>>]

-----------------------------------------------------------------------------
(* Index contents and tokens of the model *)

\* most (app_id, app_name, server_name) triples an index content holds
MaxTriples == 3

APP_IDS == {PyInt(1), PyInt(2)}

\* variant and server names: strings that int() rejects
NAMES == {PyStr("css"), PyStr("css1"), PyStr("csgo")}

TOKENS == {"1", "2", "3", "css", "css1", "cstrike"}

\* sequences of n distinct members of S: the keys of a dict in insertion order
DistinctSeqs(S, n) == {s \in [1..n -> S] : \A i, j \in 1..n : i # j => s[i] # s[j]}

Orders(S) == DistinctSeqs(S, Cardinality(S))

\* the sets of at most MaxTriples (app_id, app_name, server_name) triples
TRIPLE_SETS == {T \in SUBSET (APP_IDS \X NAMES \X NAMES) : Cardinality(T) <= MaxTriples}

\* the index content holding the triples T, its app_ids in the order ids, the variants
\* of an app_id in the order names and the servers of a variant in the order servers
IndexOf(T, ids, names, servers) ==
    LET HasId(a) == \E t \in T : t[1] = a
        present == SelectSeq(ids, HasId)
        AppsOf(a) ==
            LET HasName(v) == \E t \in T : t[1] = a /\ t[2] = v
                variants == SelectSeq(names, HasName)
                ServersIn(v) ==
                    LET Has(x) == <<a, v, x>> \in T
                    IN  SelectSeq(servers, Has)
            IN  [j \in 1..Len(variants) |->
                    [app_name |-> variants[j], servers |-> ServersIn(variants[j])]]
    IN  [i \in 1..Len(present) |-> [app_id |-> present[i], apps |-> AppsOf(present[i])]]

\* the index contents of the model: every app_id has a variant, every variant a server
INDEXES ==
    {IndexOf(T, ids, names, servers) :
        T \in TRIPLE_SETS, ids \in Orders(APP_IDS), names \in Orders(NAMES),
        servers \in Orders(NAMES)}

-----------------------------------------------------------------------------
(* The index commands: one call of Index.search or of Index.list_all on an *)
(* index content read from app_index.yaml                                  *)

InitIndex ==
    /\ pc = "idle"
    /\ index \in INDEXES
    /\ token = ""
    /\ result = None
    /\ outcome = "none"
    /\ data_apps = NoDirectory
    /\ config_apps = NoDirectory
    /\ system = "Linux"
    /\ cmd = <<>>
    /\ proc = NoProcess
    /\ self = NoApp
    /\ install = NoInstall
    /\ adapter = NotCalled

Search(app) ==
    /\ pc = "idle"
    /\ pc' = "search"
    /\ token' = app
    /\ result' = Index_search(index, app)
    /\ outcome' = "returned"
    /\ UNCHANGED <<index, roots, steam, objects>>

ListAll ==
    /\ pc = "idle"
    /\ pc' = "list_all"
    /\ result' = Index_list_all(index)
    /\ outcome' = "returned"
    /\ UNCHANGED <<index, token, roots, steam, objects>>

NextIndex ==
    \/ \E app \in TOKENS : Search(app)
    \/ ListAll

SpecIndex == InitIndex /\ [][NextIndex]_vars

-----------------------------------------------------------------------------
(* An index rebuild: Index.update() over the two configuration roots, then *)
(* the index commands on the rebuilt index                                 *)

Server(name) == ServerEntry(name, <<>>, <<>>)

Variant(name, servers) ==
    VariantEntry(name, servers, Missing, Missing, Missing,
                 {Descriptor("Linux", "", "./srcds_run", Missing)})

\* the variant -> servers mappings a definition file of the model declares
APPS_MAPPINGS ==
    { <<Variant("css", <<Server("css1")>>)>>,
      <<Variant("csgo", <<Server("csgo1")>>)>>,
      <<Variant("css", <<Server("css1"), Server("css2")>>)>>,
      <<Variant("css", <<Server("css1")>>), Variant("csgo", <<Server("csgo1")>>)>>,
      <<Variant("csgo", <<Server("csgo1")>>), Variant("css", <<Server("css1"), Server("css2")>>)>> }

\* <app_id>.yaml holding a definition of app_id
DefinitionFiles(app_id) ==
    {[name |-> str(app_id[2]) \o ".yaml", data |-> [app_id |-> app_id, apps |-> apps]] :
        apps \in APPS_MAPPINGS}

\* a file update() skips; it is never loaded, so its content is left empty
OtherFiles == {[name |-> "notes.txt", data |-> [app_id |-> None, apps |-> <<>>]]}

\* a directory holds at most one file of a name
DIRECTORIES ==
    {NoDirectory} \cup
    {[exists |-> TRUE, files |-> fs] :
        fs \in {x \in SUBSET (OtherFiles \cup UNION {DefinitionFiles(a) : a \in APP_IDS}) :
                    \A f, g \in x : f.name = g.name => f = g}}

InitUpdate ==
    /\ pc = "start"
    /\ index = <<>>
    /\ token = ""
    /\ result = None
    /\ outcome = "none"
    /\ data_apps \in DIRECTORIES
    /\ config_apps \in DIRECTORIES
    /\ system = "Linux"
    /\ cmd = <<>>
    /\ proc = NoProcess
    /\ self = NoApp
    /\ install = NoInstall
    /\ adapter = NotCalled

\* Index.update(): the rebuilt index replaces the persisted one
IndexUpdate ==
    /\ pc = "start"
    /\ \E data_listing \in Orders(data_apps.files), config_listing \in Orders(config_apps.files) :
           index' = Index_update(data_listing, config_listing)
    /\ pc' = "idle"
    /\ outcome' = "returned"
    /\ UNCHANGED <<token, result, roots, steam, objects>>

NextUpdate ==
    \/ IndexUpdate
    \/ \E app \in TOKENS : Search(app)
    \/ ListAll

SpecUpdate == InitUpdate /\ [][NextUpdate]_vars

-----------------------------------------------------------------------------
(* The update tool's commands: SteamCMD.app_update and SteamCMD.update, the *)
(* external process writing some output and ending with some exit status   *)

\* most lines the external process writes
MaxLines == 3

LINES == { "Downloading...",
           "ERROR! Disk full",
           "Success! App '730' fully installed.",
           "ERROR! Failed to install app '730' (No subscription)" }

\* '\n'.join(lines)
RECURSIVE Join(_)
Join(lines) ==
    IF Len(lines) = 1 THEN lines[1]
    ELSE lines[1] \o "\n" \o Join(SubSeq(lines, 2, Len(lines)))

\* what the process can write: one to MaxLines lines
STDOUTS == UNION {{Join(lines) : lines \in [1..n -> LINES]} : n \in 1..MaxLines}

RETURNCODES == {0, 8}

PLATFORMS == {"Linux", "Darwin", "Windows"}

OptionalStr(values) == {None} \cup {PyStr(v) : v \in values}

LOGINS == {<<"anonymous", "", "">>, <<"gabe", "secret", "G7K2P">>}

InitSteam ==
    /\ pc = "idle"
    /\ index = <<>>
    /\ token = ""
    /\ result = None
    /\ outcome = "none"
    /\ data_apps = NoDirectory
    /\ config_apps = NoDirectory
    /\ system \in {"Linux", "Windows"}
    /\ cmd = <<>>
    /\ proc = NoProcess
    /\ self = NoApp
    /\ install = NoInstall
    /\ adapter = NotCalled

\* steamcmd.app_update(app_id, app_dir, beta, beta_password, config, platform, validate,
\*                     username, password, steam_guard, verbose), the process writing
\* some output and ending with some exit status
AppUpdate ==
    /\ pc = "idle"
    /\ \E verbose \in BOOLEAN :
       \E stdout \in (IF verbose THEN {""} ELSE STDOUTS), returncode \in RETURNCODES :
       \E beta \in OptionalStr({"prerelease"}), beta_password \in OptionalStr({"hunter2"}),
          config \in OptionalStr({"mod cstrike"}), platform \in OptionalStr(PLATFORMS),
          validate \in BOOLEAN, login \in LOGINS :
            /\ cmd' = AppUpdateCmd(system, APP_ID, APP_DIR, beta, beta_password, config,
                                   platform, validate, login[1], login[2], login[3])
            /\ proc' = Process(RunArgv(cmd'), verbose, stdout, returncode)
            /\ result' = SteamCMD_run(cmd', verbose, stdout, returncode)
            /\ token' = <<beta, beta_password, config, platform, validate, login>>
    /\ pc' = "app_update"
    /\ outcome' = "returned"
    /\ UNCHANGED <<index, roots, system, objects>>

\* SteamCMD.update(verbose)
SelfUpdate ==
    /\ pc = "idle"
    /\ \E verbose \in BOOLEAN :
       \E stdout \in (IF verbose THEN {""} ELSE STDOUTS), returncode \in RETURNCODES :
            /\ cmd' = <<"+quit">>
            /\ proc' = Process(RunArgv(cmd'), verbose, stdout, returncode)
            /\ result' = SteamCMD_run(cmd', verbose, stdout, returncode)
    /\ pc' = "update"
    /\ outcome' = "returned"
    /\ UNCHANGED <<index, token, roots, system, objects>>

NextSteam ==
    \/ AppUpdate
    \/ SelfUpdate

SpecSteam == InitSteam /\ [][NextSteam]_vars

-----------------------------------------------------------------------------
(* The app commands: an App or Server is constructed from the user's token *)
(* and one operation is called on it. The index is the one Index.update()  *)
(* builds from the two roots.                                              *)

INSTALL_ROOT == "/srv"

\* the start directives of the specification's scenario, and others
START_OPTIONS == <<"-game", "cstrike", "+map?", "de_dust2">>

LinuxDirect == Descriptor("Linux", "", "./srcds_run -console", Missing)
LinuxByArch == Descriptor("Linux", "64bit", "./srcds_linux", PyStr("bin"))

\* the definitions of app_id 730 the model installs as 730.yaml
APP_DEFINITIONS ==
    { [app_id |-> APP_ID,
       apps |-> <<VariantEntry("css",
                      <<ServerEntry("css1", START_OPTIONS, <<"quit">>),
                        ServerEntry("css2", <<"-game", "cstrike">>, <<>>)>>,
                      Missing, Missing, Missing, {LinuxDirect})>>],
      [app_id |-> APP_ID,
       apps |-> <<VariantEntry("css",
                      <<ServerEntry("css1", <<"+map?", "de_dust2">>, <<"say bye", "quit">>)>>,
                      PyStr("prerelease"), PyStr("hunter2"), Missing, {LinuxByArch}),
                  VariantEntry("csgo",
                      <<ServerEntry("csgo1", <<>>, <<"quit">>),
                        ServerEntry("csgo2", START_OPTIONS, <<>>)>>,
                      PyStr("prerelease"), PyStr("hunter2"), PyStr("mod csgo"), {LinuxByArch})>>] }

Dir(name, entries) == [name |-> name, entries |-> entries]

\* the states of /srv/730 the commands start from
INSTALLS ==
    { NoInstall,
      [id_dir |-> TRUE, dirs |-> {}],
      [id_dir |-> TRUE, dirs |-> {Dir("css", {})}],
      [id_dir |-> TRUE, dirs |-> {Dir("css", {"steamapps"})}],
      [id_dir |-> TRUE, dirs |-> {Dir("css", {"steamapps", "srcds_run"})}],
      [id_dir |-> TRUE, dirs |-> {Dir("css", {"steamapps", "bin"}), Dir("csgo", {"steamapps", "bin"})}],
      [id_dir |-> TRUE, dirs |-> {Dir("csgo", {"srcds_run"})}] }

\* what the update tool may do to the install directory during one run
TOOL_EFFECTS ==
    { [creates |-> FALSE, entries |-> {}],
      [creates |-> TRUE, entries |-> {"steamapps"}],
      [creates |-> TRUE, entries |-> {"steamapps", "srcds_run"}] }

APP_TOKENS == {"730", "css1", "hl2"}
SERVER_TOKENS == {"730", "css", "css1", "css2", "csgo", "csgo2", "hl2"}

InitApp ==
    /\ pc = "idle"
    /\ \E definition \in APP_DEFINITIONS :
         LET file == [name |-> str(APP_ID[2]) \o ".yaml", data |-> definition] IN
         /\ data_apps = [exists |-> TRUE, files |-> {file}]
         /\ config_apps \in {NoDirectory, [exists |-> TRUE, files |-> {}],
                             [exists |-> TRUE, files |-> {file}]}
    /\ index = Index_update(<<CHOOSE f \in data_apps.files : TRUE>>,
                            IF config_apps.files = {} THEN <<>>
                            ELSE <<CHOOSE f \in config_apps.files : TRUE>>)
    /\ token = ""
    /\ result = None
    /\ outcome = "none"
    /\ system = "Linux"
    /\ cmd = <<>>
    /\ proc = NoProcess
    /\ self = NoApp
    /\ install \in INSTALLS
    /\ adapter = NotCalled

\* the command ends in __init__: the exception leaves everything as it was
Raised(made) ==
    /\ outcome' = made.outcome
    /\ result' = None
    /\ self' = NoApp
    /\ UNCHANGED <<index, roots, steam, install, adapter>>

\* App(token, INSTALL_ROOT).update(verbose=verbose)
Update ==
    /\ pc = "idle"
    /\ pc' = "update"
    /\ \E tkn \in APP_TOKENS, verbose \in BOOLEAN, effect \in TOOL_EFFECTS :
       \E stdout \in (IF verbose THEN {""} ELSE STDOUTS), returncode \in RETURNCODES :
         \E made \in {App_init(data_apps, config_apps, index, system, tkn, INSTALL_ROOT, None)} :
         /\ token' = tkn
         /\ IF made.outcome # "returned" THEN Raised(made)
            ELSE \E done \in {App_update(made.app, install, data_apps, config_apps, system,
                                           FALSE, verbose, stdout, returncode, effect)} :
                     /\ outcome' = done.outcome
                     /\ result' = done.result
                     /\ self' = done.self
                     /\ config_apps' = done.config_apps
                     /\ install' = done.install
                     /\ adapter' = done.adapter
                     /\ cmd' = done.cmd
                     /\ proc' = done.proc
                     /\ UNCHANGED <<index, data_apps, system>>

\* App(token, INSTALL_ROOT).installed
Installed ==
    /\ pc = "idle"
    /\ pc' = "installed"
    /\ \E tkn \in APP_TOKENS :
         \E made \in {App_init(data_apps, config_apps, index, system, tkn, INSTALL_ROOT, None)} :
         /\ token' = tkn
         /\ IF made.outcome # "returned" THEN Raised(made)
            ELSE /\ outcome' = "returned"
                 /\ result' = App_installed(made.app, install)
                 /\ self' = made.app
                 /\ UNCHANGED <<index, roots, steam, install, adapter>>

\* App(token, INSTALL_ROOT).remove()
Remove ==
    /\ pc = "idle"
    /\ pc' = "remove"
    /\ \E tkn \in APP_TOKENS :
         \E made \in {App_init(data_apps, config_apps, index, system, tkn, INSTALL_ROOT, None)} :
         /\ token' = tkn
         /\ IF made.outcome # "returned" THEN Raised(made)
            ELSE \E done \in {App_remove(made.app, install)} :
                     /\ outcome' = done.outcome
                     /\ result' = None
                     /\ self' = made.app
                     /\ install' = done.install
                     /\ UNCHANGED <<index, roots, steam, adapter>>

\* Server(token, INSTALL_ROOT, platform=platform).start(debug)
Start ==
    /\ pc = "idle"
    /\ pc' = "start"
    /\ \E tkn \in SERVER_TOKENS, platform \in OptionalStr({"Windows"}), debug \in BOOLEAN :
         \E made \in {Server_init(data_apps, config_apps, index, system, tkn, INSTALL_ROOT, platform)} :
         /\ token' = tkn
         /\ IF made.outcome # "returned" THEN Raised(made)
            ELSE \E done \in {Server_start(made.app, install, debug)} :
                     /\ outcome' = done.outcome
                     /\ result' = None
                     /\ self' = made.app
                     /\ cmd' = done.cmd
                     /\ UNCHANGED <<index, roots, system, proc, install, adapter>>

\* Server(token, INSTALL_ROOT).stop()
Stop ==
    /\ pc = "idle"
    /\ pc' = "stop"
    /\ \E tkn \in SERVER_TOKENS :
         \E made \in {Server_init(data_apps, config_apps, index, system, tkn, INSTALL_ROOT, None)} :
         /\ token' = tkn
         /\ IF made.outcome # "returned" THEN Raised(made)
            ELSE \E done \in {Server_stop(made.app)} :
                     /\ outcome' = done.outcome
                     /\ result' = None
                     /\ self' = made.app
                     /\ cmd' = done.cmd
                     /\ UNCHANGED <<index, roots, system, proc, install, adapter>>

NextApp ==
    \/ Update
    \/ Installed
    \/ Remove
    \/ Start
    \/ Stop

SpecApp == InitApp /\ [][NextApp]_vars

-----------------------------------------------------------------------------
(* Properties of Index.search and Index.list_all *)

\* the (app_id, app_name, server_name) triples an index content holds
Triples(data) ==
    {<<data[i].app_id, data[i].apps[j].app_name, data[i].apps[j].servers[k]>> :
        <<i, j, k>> \in {x \in (1..Len(data)) \X (1..MaxTriples + 1) \X (1..MaxTriples + 1) :
                            /\ x[2] <= Len(data[x[1]].apps)
                            /\ x[3] <= Len(data[x[1]].apps[x[2]].servers)}}

\* the token a user types for an app_id, and the one typed for a name
IdToken(app_id) == str(app_id[2])
NameToken(name) == name[2]

\* every variant and server name under the entry
NamesUnder(entry) ==
    AppNames(entry) \cup UNION {Range(entry.apps[j].servers) : j \in 1..Len(entry.apps)}

PositionOf(data, app_id) == CHOOSE i \in 1..Len(data) : data[i].app_id = app_id

\* C1 as claimed: for every triple in the index, the search on its app_id token, on its
\* variant-name token and on its server-name token returns that app_id (and the
\* component the token names is the triple's); a token equal to no app_id token,
\* variant name or server name returns (None, None, None).
C1_EveryTokenIdentifiesItsApp ==
    pc = "search" =>
        /\ \A t \in Triples(index) :
               /\ token \in {IdToken(t[1]), NameToken(t[2]), NameToken(t[3])} => result[1] = t[1]
               /\ (token = NameToken(t[2]) /\ result[2] # None) => result[2] = t[2]
               /\ (token = NameToken(t[3]) /\ result[3] # None) => result[3] = t[3]
        /\ (\A t \in Triples(index) :
               token \notin {IdToken(t[1]), NameToken(t[2]), NameToken(t[3])})
           => result = <<None, None, None>>

\* C1 as amended: the app_id token returns (app_id, None, None); a variant-name or
\* server-name token (a name int() rejects) returns the triple's app_id when no app_id
\* earlier in the index order has the token among its variant or server names (first
\* match wins); a non-null variant component is a variant of the returned app_id that
\* is the token or lists it as a server, a non-null server component is the token; a
\* token that matches no app_id and no name returns (None, None, None).
C1_FirstMatchWins ==
    pc = "search" =>
        LET app == int_or_pass(token) IN
        /\ \A t \in Triples(index) :
               /\ token = IdToken(t[1]) => result = <<t[1], None, None>>
               /\ ( /\ app \in {t[2], t[3]}
                    /\ \A i \in 1..(PositionOf(index, t[1]) - 1) : app \notin NamesUnder(index[i]) )
                  => result[1] = t[1]
        /\ result[2] # None =>
               \E t \in Triples(index) :
                   /\ t[1] = result[1] /\ t[2] = result[2]
                   /\ app = t[2] \/ app = t[3]
        /\ result[3] # None =>
               /\ result[3] = app
               /\ <<result[1], result[2], result[3]>> \in Triples(index)
        /\ (app \notin Keys(index) /\ \A i \in 1..Len(index) : app \notin NamesUnder(index[i]))
           => result = <<None, None, None>>

\* a search on a server name that only the second app_id of the index has
C1_Witness ==
    /\ pc = "search"
    /\ Len(index) = 2
    /\ result[1] = index[2].app_id
    /\ result[3] = PyStr(token)
    /\ \E i \in 1..Len(index) : PyStr(token) \in NamesUnder(index[i])

\* the number of positions of seq that hold x
Count(seq, x) == Cardinality({i \in 1..Len(seq) : seq[i] = x})

\* C7: list_all yields the bare app_id exactly once for each app_id with one variant,
\* each variant name exactly once for each app_id with more than one variant (once per
\* app_id that has it) and never that app_id itself, and nothing else.
C7_ListAllYields ==
    pc = "list_all" =>
        /\ \A x \in Range(result) \cup APP_IDS \cup NAMES :
               Count(result, x) =
                   Cardinality({i \in 1..Len(index) :
                                   Len(index[i].apps) = 1 /\ index[i].app_id = x})
                   + Cardinality({i \in 1..Len(index) :
                                   Len(index[i].apps) > 1 /\ x \in AppNames(index[i])})
        /\ \A i \in 1..Len(index) :
               Len(index[i].apps) > 1 => index[i].app_id \notin Range(result)

\* an index with a single-variant app_id and a multi-variant app_id has been listed
C7_Witness ==
    /\ pc = "list_all"
    /\ \E i, j \in 1..Len(index) : Len(index[i].apps) = 1 /\ Len(index[j].apps) > 1
    /\ Len(result) = 3

-----------------------------------------------------------------------------
(* Properties of Index.update *)

\* the definition in force for app_id: the user root's file if it has one, else the
\* default root's
DefinitionsOf(app_id) ==
    LET InRoot(d) == {f.data : f \in {g \in d.files : HasYamlSuffix(g.name) /\ g.data.app_id = app_id}}
    IN  IF InRoot(config_apps) # {} THEN InRoot(config_apps) ELSE InRoot(data_apps)

\* C2: after Index.update() the index holds exactly the app_ids defined in either root,
\* and for each of them every variant of the definition in force (the user root's when
\* both define it) with its server names, and search/list_all answer from that content.
C2_IndexReflectsDefinitions ==
    pc # "start" =>
        /\ \A a \in APP_IDS : (a \in Keys(index)) <=> (DefinitionsOf(a) # {})
        /\ \A i \in 1..Len(index) : \A d \in DefinitionsOf(index[i].app_id) :
               /\ Len(index[i].apps) = Len(d.apps)
               /\ \A v \in 1..Len(d.apps) :
                      /\ d.apps[v].app_name \in AppNames(index[i])
                      /\ ServersOf(index[i], d.apps[v].app_name) = ServerNames(d.apps[v])
        /\ pc = "search" => result = Index_search(index, token)
        /\ pc = "list_all" => result = Index_list_all(index)

-----------------------------------------------------------------------------
(* Properties of SteamCMD.filter and SteamCMD.app_update *)

C6_Markers == {"Success", "Update complete", "ERROR", "Failed", "Fatal Error"}

\* the positions of the captured output lines that contain a marker
C6_Marked(lines) == {i \in 1..Len(lines) : \E w \in C6_Markers : Contains(lines[i], w)}

\* C6: filter returns the exit code with the last output line that contains a success
\* or error marker, whatever earlier lines contain, and with None iff no line has one.
C6_FilterReturnsLastMarked ==
    (pc \in {"app_update", "update"} /\ proc.captured) =>
        LET lines == Split(proc.stdout, "\n")
            marked == C6_Marked(lines)
        IN  /\ result[1] = PyInt(proc.returncode)
            /\ (result[2] = None) <=> (marked = {})
            /\ marked # {} =>
                   result[2] = PyStr(lines[CHOOSE i \in marked : \A k \in marked : k <= i])

\* the scenario of the specification: an error line precedes the final success line
C6_Witness ==
    /\ pc = "app_update"
    /\ proc.captured
    /\ proc.stdout = "Downloading...\nERROR! Disk full\nSuccess! App '730' fully installed."
    /\ result[2] = PyStr("Success! App '730' fully installed.")

\* the members of args directly follow some occurrence of word in list
FollowedBy(list, word, args) ==
    \E p \in 1..Len(list) :
        /\ list[p] = word
        /\ p + Len(args) <= Len(list)
        /\ \A k \in 1..Len(args) : list[p + k] = args[k]

C10_HasPlatformDirective(list) ==
    \E p \in 1..Len(list) : Contains(list[p], "+@sSteamCmdForcePlatformType")

\* C10: in the list app_update builds, +login is directly followed by the username, the
\* password and the guard code, +force_install_dir by the install directory, +app_update
\* by the app id, +quit is last, and the platform directive is present iff a platform
\* other than the host's is given.
C10_ArgumentOrder ==
    pc = "app_update" =>
        LET platform == token[4]
            login == token[6]
        IN  /\ FollowedBy(cmd, "+login", login)
            /\ FollowedBy(cmd, "+force_install_dir", <<APP_DIR>>)
            /\ FollowedBy(cmd, "+app_update", <<str(APP_ID[2])>>)
            /\ cmd[Len(cmd)] = "+quit"
            /\ C10_HasPlatformDirective(cmd) <=> (platform # None /\ platform # PyStr(system))

-----------------------------------------------------------------------------
(* Properties of the app commands *)

\* the message the adapter handed to update() holds the no-subscription text
NoSubscription(pair) == pair[2] # None /\ Contains(pair[2][2], "(No subscription)")

\* update() came to its rollback: the adapter was called on a directory that did not
\* exist and its message holds the no-subscription text
RollbackDue == pc = "update" /\ adapter.called /\ adapter.new_install /\ NoSubscription(adapter.value)

C4_InstalledIgnoresSteamapps ==
    (pc = "installed" /\ outcome = "returned") =>
        (result <=> /\ AppDirExists(self, install)
                    /\ \E name \in AppDirEntries(self, install) : name # "steamapps")

\* a directive ending in the join marker, without the marker
WithoutMarker(directive) == SubSeq(directive, 1, Len(directive) - 1)

\* the start directives as arguments: each on its own, one ending in '?' made a single
\* argument with the directive after it
RECURSIVE Joined(_)
Joined(options) ==
    IF options = <<>> THEN <<>>
    ELSE IF EndsWith(options[1], "?") /\ Len(options) > 1
    THEN <<WithoutMarker(options[1]) \o " " \o options[2]>> \o Joined(Tail(Tail(options)))
    ELSE <<options[1]>> \o Joined(Tail(options))

\* C5: start() appends after the executable's arguments the start directives in their
\* order, each its own argument, but a directive ending in '?' is combined with its
\* neighbour into one argument: ["-game", "cstrike", "+map?", "de_dust2"] gives
\* ["-game", "cstrike", "+map de_dust2"].
C5_StartJoinsMarkedDirectives ==
    (pc = "start" /\ outcome = "returned") =>
        \E head \in {<<>>, <<"screen", "-dmS", self.session>>} :
            cmd = head \o Split(self.exe, " ") \o Joined(self.start_options)

\* C8: whenever the rollback condition (new install and a message containing
\* "(No subscription)") does not hold, update() returns the adapter's pair unchanged and
\* leaves the install directory as the tool left it, also when the message is None.
C8_UpdatePassesResultThrough ==
    (pc = "update" /\ adapter.called /\ ~(adapter.new_install /\ NoSubscription(adapter.value))) =>
        /\ outcome = "returned"
        /\ result = adapter.value
        /\ install = adapter.left

\* the token names no server: the search gives no server_name for it
NamesNoServer(tkn) == Index_search(index, tkn)[1] # None /\ Index_search(index, tkn)[3] = None

\* the Server the same command makes when the server is named
Named(server_name) ==
    Server_init(data_apps, config_apps, index, system, server_name[2], INSTALL_ROOT,
                PyStr(self.platform)).app

\* C9: a Server made from a token that names no server has the variant's first server,
\* the session '{variant}-{first server}', and start() and stop() do with it what they
\* do when that server is named.
C9_DefaultServerActsAsNamed ==
    (pc \in {"start", "stop"} /\ self # NoApp /\ NamesNoServer(token)) =>
        /\ self.server_name = self.server_names[1]
        /\ self.session = self.app_name[2] \o "-" \o self.server_names[1][2]
        /\ pc = "stop" => [outcome |-> outcome, cmd |-> cmd] = Server_stop(Named(self.server_name))
        /\ pc = "start" =>
               \E debug \in BOOLEAN :
                   [outcome |-> outcome, cmd |-> cmd]
                        = Server_start(Named(self.server_name), install, debug)

====
